---------------------------- MODULE Spec2Model ----------------------------
(***************************************************************************)
(* Model of the free-text transaction extractor of the financial archiver  *)
(* (bot/extraction.py).  A Python str is a sequence of one-character       *)
(* strings; the three regular expressions are modelled by what Python's    *)
(* backtracking matcher does with them (leftmost match, alternatives in    *)
(* order, greedy repetition); Decimal, strptime/strftime and fromtimestamp *)
(* are modelled by their results on the strings the extractor feeds them.  *)
(*                                                                         *)
(* The second part models the record store around the extractor: the bot   *)
(* (bot/main.py) with its start-up passes and its event handlers, and the  *)
(* dashboard's Save Changes handler (viewer/app.py), one step per SQL       *)
(* transaction or, inside a transaction, per statement, as PostgreSQL's    *)
(* default READ COMMITTED isolation lets other sessions commit in between. *)
(***************************************************************************)
EXTENDS Integers, Sequences, FiniteSets, TLC

VARIABLES
    text,        \* the message text handed to the extractor (a str, or None)
    pc,          \* "idle" before a call; afterwards the function that returned
    message_ts,  \* the fallback timestamp of the call (whole seconds since the epoch)
    amount,      \* what parse_amount returned
    date_result, \* what parse_date returned: <<date string or None, extracted>>
    description, \* what parse_description returned
    record,      \* what extract_transaction_data returned
    platform,    \* the process's environment in the call: its zone and its C library
    raised       \* the exception that escaped the call ("none" when it returned)

VARIABLES
    messages,    \* the messages table: the row stored under each (channel_id, timestamp)
    next_id,     \* the next value of the table's id sequence
    bot,         \* the bot's main thread: its position and the rows backfill_data fetched
    handler,     \* each caller of the bot's store functions: its position and arguments
    editor       \* the dashboard session: the row it loaded and shows for editing

extractionVars == <<text, pc, message_ts, platform, amount, date_result, description, record, raised>>

storeVars == <<messages, next_id, bot, handler, editor>>

vars == <<extractionVars, storeVars>>

---------------------------------------------------------------------------
(* Python values *)

\* None where a str is expected: a value that is no sequence of characters
None == <<"None">>

\* None where a Decimal is expected
NoneDecimal == [tag |-> "None"]

\* Decimal with the digits and the exponent Python keeps: coef * 10^(-exp)
DecimalValue(coef, exp) == [tag |-> "Decimal", coef |-> coef, exp |-> exp]

\* truth value of a str or None (`if not text`)
Truthy(s) == s # None /\ s # <<>>

\* a call either returns a value or raises
Return(v) == [exc |-> "none", val |-> v]

Raise(e) == [exc |-> e]

\* a or b
Or(a, b) == IF Truthy(a) THEN a ELSE b

Min(S) == CHOOSE x \in S : \A y \in S : x <= y

Max(S) == CHOOSE x \in S : \A y \in S : x >= y

---------------------------------------------------------------------------
(* Character classes of the patterns *)

Digits == {"0", "1", "2", "3", "4", "5", "6", "7", "8", "9"}

LowerCase == <<"a","b","c","d","e","f","g","h","i","j","k","l","m","n","o","p","q","r","s","t","u","v","w","x","y","z">>

UpperCase == <<"A","B","C","D","E","F","G","H","I","J","K","L","M","N","O","P","Q","R","S","T","U","V","W","X","Y","Z">>

\* [a-zA-Z]
Alpha == {LowerCase[i] : i \in DOMAIN LowerCase} \cup {UpperCase[i] : i \in DOMAIN UpperCase}

\* \s
Spaces == {" ", "\n", "\t"}

\* [\d.,]
NumChars == Digits \cup {".", ","}

\* [./-]
DateSeps == {".", "/", "-"}

\* \w
WordChars == Digits \cup Alpha \cup {"_"}

\* \b at the position before s[i] (i in 1..Len(s)+1)
WordBoundary(s, i) ==
    LET before == i > 1 /\ s[i - 1] \in WordChars
        after == i <= Len(s) /\ s[i] \in WordChars
    IN before # after

RECURSIVE RunEnd(_, _, _)
\* where a greedy run of characters of class C that starts at i ends
\* (the first position at or after i that holds no character of C)
RunEnd(s, i, C) == IF i > Len(s) \/ s[i] \notin C THEN i ELSE RunEnd(s, i + 1, C)

\* the characters of s that are not white space
Char_NotSpace(s) == {s[k] : k \in DOMAIN s} \ Spaces

\* s[i:j] with 1-based i and exclusive j
Slice(s, i, j) == SubSeq(s, i, j - 1)

NoMatch == [start |-> 0]

---------------------------------------------------------------------------
\* AMOUNT_PATTERN: a euro sign, optional white space, a run of [\d.,] (group 1);
\* or a run of [\d.,] (group 2), optional white space, a euro sign

\* The match that starts at i, if any.  \s and [\d.,] share no character and
\* neither holds the euro sign, so each greedy run is the only run that can
\* lead to a match; the first alternative is tried first.
AMOUNT_PATTERN_at(s, i) ==
    LET sp1 == RunEnd(s, i + 1, Spaces)
        num1 == RunEnd(s, sp1, NumChars)
        num2 == RunEnd(s, i, NumChars)
        sp2 == RunEnd(s, num2, Spaces)
    IN IF s[i] = "€" /\ num1 > sp1
         THEN [start |-> i, end |-> num1, g1 |-> Slice(s, sp1, num1), g2 |-> None]
       ELSE IF num2 > i /\ sp2 <= Len(s) /\ s[sp2] = "€"
         THEN [start |-> i, end |-> sp2 + 1, g1 |-> None, g2 |-> Slice(s, i, num2)]
       ELSE NoMatch

RECURSIVE AMOUNT_PATTERN_search(_, _)
\* AMOUNT_PATTERN.search(s) scanning from position pos: the leftmost match
AMOUNT_PATTERN_search(s, pos) ==
    IF pos > Len(s) THEN NoMatch
    ELSE IF AMOUNT_PATTERN_at(s, pos) # NoMatch THEN AMOUNT_PATTERN_at(s, pos)
    ELSE AMOUNT_PATTERN_search(s, pos + 1)

---------------------------------------------------------------------------
\* DATE_NUMERIC_PATTERN: word edge, 1-2 digits, one of ./-, 1-2 digits,
\* one of ./-, 2-4 digits, word edge

\* every position of s[from:to] exists and holds a character of class C
AllIn(s, from, to, C) == to - 1 <= Len(s) /\ \A k \in from..(to - 1) : s[k] \in C

\* s[i] exists and is in class C
CharIn(s, i, C) == i <= Len(s) /\ s[i] \in C

\* the greatest triple in the order the matcher tries the repetition counts:
\* each group greedy, an earlier group's count given up last
GreedyFirst(cands) ==
    CHOOSE c \in cands : \A o \in cands :
        \/ c[1] > o[1]
        \/ c[1] = o[1] /\ c[2] > o[2]
        \/ c[1] = o[1] /\ c[2] = o[2] /\ c[3] >= o[3]

\* whether the pattern matches at i with a, b and c digits in its three groups
NumericFits(s, i, a, b, c) ==
    /\ WordBoundary(s, i)
    /\ AllIn(s, i, i + a, Digits)
    /\ CharIn(s, i + a, DateSeps)
    /\ AllIn(s, i + a + 1, i + a + 1 + b, Digits)
    /\ CharIn(s, i + a + 1 + b, DateSeps)
    /\ AllIn(s, i + a + b + 2, i + a + b + 2 + c, Digits)
    /\ WordBoundary(s, i + a + b + 2 + c)

\* the match at i whose groups hold a, b and c digits
NumericMatch(s, i, a, b, c) ==
    [start |-> i, end |-> i + a + b + c + 2,
     g1 |-> Slice(s, i, i + a),
     g2 |-> Slice(s, i + a + 1, i + a + 1 + b),
     g3 |-> Slice(s, i + a + b + 2, i + a + b + 2 + c)]

\* the match the matcher finds first among the repetition counts that fit
NumericChoice(s, i, cands) ==
    IF cands = {} THEN NoMatch
    ELSE NumericMatch(s, i, GreedyFirst(cands)[1], GreedyFirst(cands)[2], GreedyFirst(cands)[3])

DATE_NUMERIC_PATTERN_at(s, i) ==
    NumericChoice(s, i, {c \in (1..2) \X (1..2) \X (2..4) : NumericFits(s, i, c[1], c[2], c[3])})

RECURSIVE DATE_NUMERIC_PATTERN_search(_, _)
DATE_NUMERIC_PATTERN_search(s, pos) ==
    IF pos > Len(s) THEN NoMatch
    ELSE IF DATE_NUMERIC_PATTERN_at(s, pos) # NoMatch THEN DATE_NUMERIC_PATTERN_at(s, pos)
    ELSE DATE_NUMERIC_PATTERN_search(s, pos + 1)

---------------------------------------------------------------------------
\* DATE_TEXTUAL_PATTERN: word edge, 1-2 digits, white space, a run of
\* [a-zA-Z], white space, 2-4 digits, word edge (IGNORECASE)

\* whether the pattern matches at i with a digits in the day and c in the
\* year.  Digits, white space and letters share no character, so the runs of
\* white space and of letters between the day and the year are the greedy ones.
TextualFits(s, i, a, c) ==
    LET ws1 == RunEnd(s, i + a, Spaces)
        word == RunEnd(s, ws1, Alpha)
        ws2 == RunEnd(s, word, Spaces)
    IN /\ WordBoundary(s, i)
       /\ AllIn(s, i, i + a, Digits)
       /\ ws1 > i + a
       /\ word > ws1
       /\ ws2 > word
       /\ AllIn(s, ws2, ws2 + c, Digits)
       /\ WordBoundary(s, ws2 + c)

\* the match at i with a digits in the day and c in the year
TextualMatch(s, i, a, c) ==
    LET ws1 == RunEnd(s, i + a, Spaces)
        word == RunEnd(s, ws1, Alpha)
        ws2 == RunEnd(s, word, Spaces)
    IN [start |-> i, end |-> ws2 + c,
        g1 |-> Slice(s, i, i + a),
        g2 |-> Slice(s, ws1, word),
        g3 |-> Slice(s, ws2, ws2 + c)]

\* the match the matcher finds first among the repetition counts that fit
TextualChoice(s, i, cands) ==
    IF cands = {} THEN NoMatch
    ELSE TextualMatch(s, i, GreedyFirst(cands)[1], GreedyFirst(cands)[3])

DATE_TEXTUAL_PATTERN_at(s, i) ==
    TextualChoice(s, i, {c \in (1..2) \X {0} \X (2..4) : TextualFits(s, i, c[1], c[3])})

RECURSIVE DATE_TEXTUAL_PATTERN_search(_, _)
DATE_TEXTUAL_PATTERN_search(s, pos) ==
    IF pos > Len(s) THEN NoMatch
    ELSE IF DATE_TEXTUAL_PATTERN_at(s, pos) # NoMatch THEN DATE_TEXTUAL_PATTERN_at(s, pos)
    ELSE DATE_TEXTUAL_PATTERN_search(s, pos + 1)

---------------------------------------------------------------------------
(* str methods *)

\* c in s
Contains(s, c) == \E i \in DOMAIN s : s[i] = c

\* s.rfind(c), 1-based; 0 when c is not in s
rfind(s, c) == IF Contains(s, c) THEN Max({i \in DOMAIN s : s[i] = c}) ELSE 0

RECURSIVE replace(_, _, _)
\* s.replace(c, by) for a single character c and a str by
replace(s, c, by) ==
    IF s = <<>> THEN <<>>
    ELSE (IF Head(s) = c THEN by ELSE <<Head(s)>>) \o replace(Tail(s), c, by)

RECURSIVE split(_)
\* s.split(): the words between runs of white space
split(s) ==
    IF s = <<>> THEN <<>>
    ELSE IF Head(s) \in Spaces THEN split(Tail(s))
    ELSE LET e == RunEnd(s, 1, Char_NotSpace(s))
         IN <<Slice(s, 1, e)>> \o split(Slice(s, e, Len(s) + 1))

RECURSIVE join(_, _)
\* sep.join(words)
join(sep, words) ==
    IF words = <<>> THEN <<>>
    ELSE IF Len(words) = 1 THEN Head(words)
    ELSE Head(words) \o sep \o join(sep, Tail(words))

\* s.zfill(width)
zfill(s, width) == [k \in 1..(IF Len(s) >= width THEN 0 ELSE width - Len(s)) |-> "0"] \o s

\* s.lower() on the letters of [a-zA-Z]
lower(s) ==
    [k \in DOMAIN s |->
        IF \E j \in DOMAIN UpperCase : UpperCase[j] = s[k]
        THEN LowerCase[CHOOSE j \in DOMAIN UpperCase : UpperCase[j] = s[k]]
        ELSE s[k]]

---------------------------------------------------------------------------
(* decimal.Decimal and datetime, on the strings the extractor builds *)

DigitSeq == <<"0", "1", "2", "3", "4", "5", "6", "7", "8", "9">>

\* the value of one decimal digit
DigitVal(c) == (CHOOSE j \in DOMAIN DigitSeq : DigitSeq[j] = c) - 1

RECURSIVE ToInt(_)
\* int(s) for a run of decimal digits
ToInt(s) == IF s = <<>> THEN 0 ELSE ToInt(SubSeq(s, 1, Len(s) - 1)) * 10 + DigitVal(s[Len(s)])

RECURSIVE IntToStr(_)
\* str(n) for n >= 0
IntToStr(n) == IF n < 10 THEN <<DigitSeq[n + 1]>> ELSE IntToStr(n \div 10) \o <<DigitSeq[(n % 10) + 1]>>

\* Decimal(s) for a str of digits, '.' and ',': a numeric string has at least
\* one digit and at most one '.', and nothing else; the digits and the number
\* of decimal places are kept.  Anything else signals InvalidOperation.
Decimal(s) ==
    LET dots == {i \in DOMAIN s : s[i] = "."}
        digits == SelectSeq(s, LAMBDA c : c \in Digits)
    IN IF /\ \A i \in DOMAIN s : s[i] \in Digits \cup {"."}
          /\ Cardinality(dots) <= 1
          /\ digits # <<>>
       THEN Return(DecimalValue(ToInt(digits),
                                IF dots = {} THEN 0 ELSE Len(s) - Max(dots)))
       ELSE Raise("InvalidOperation")

\* calendar.isleap
IsLeap(year) == year % 4 = 0 /\ (year % 100 # 0 \/ year % 400 = 0)

DaysInMonth(year, month) ==
    IF month = 2 THEN (IF IsLeap(year) THEN 29 ELSE 28)
    ELSE IF month \in {4, 6, 9, 11} THEN 30 ELSE 31

\* the directive %m of strptime: 1[0-2], 0[1-9] or [1-9]
StrptimeMonth(t) ==
    \/ Len(t) = 2 /\ t[1] = "1" /\ t[2] \in {"0", "1", "2"}
    \/ Len(t) = 2 /\ t[1] = "0" /\ t[2] \in Digits \ {"0"}
    \/ Len(t) = 1 /\ t[1] \in Digits \ {"0"}

\* the directive %d of strptime: 3[0-1], [1-2]\d, 0[1-9], [1-9] or a space and [1-9]
StrptimeDay(t) ==
    \/ Len(t) = 2 /\ t[1] = "3" /\ t[2] \in {"0", "1"}
    \/ Len(t) = 2 /\ t[1] \in {"1", "2"} /\ t[2] \in Digits
    \/ Len(t) = 2 /\ t[1] \in {"0", " "} /\ t[2] \in Digits \ {"0"}
    \/ Len(t) = 1 /\ t[1] \in Digits \ {"0"}

\* datetime.strptime(s, "%Y-%m-%d"): the whole of s must be four digits, '-',
\* a month, '-', a day; then datetime(year, month, day) must exist (year >= 1,
\* day within the month).  Every failure is a ValueError.
strptime(s) ==
    LET fits == {c \in (1..2) \X (1..2) :
                    /\ AllIn(s, 1, 5, Digits)
                    /\ CharIn(s, 5, {"-"})
                    /\ 5 + c[1] <= Len(s)
                    /\ StrptimeMonth(Slice(s, 6, 6 + c[1]))
                    /\ CharIn(s, 6 + c[1], {"-"})
                    /\ 6 + c[1] + c[2] = Len(s)
                    /\ StrptimeDay(Slice(s, 7 + c[1], 7 + c[1] + c[2]))}
    IN IF fits = {} THEN Raise("ValueError")
       ELSE LET c == CHOOSE x \in fits : TRUE
                year == ToInt(Slice(s, 1, 5))
                month == ToInt(Slice(s, 6, 6 + c[1]))
                day == ToInt(SelectSeq(Slice(s, 7 + c[1], 7 + c[1] + c[2]), LAMBDA ch : ch \in Digits))
            IN IF year >= 1 /\ day <= DaysInMonth(year, month)
               THEN Return([year |-> year, month |-> month, day |-> day])
               ELSE Raise("ValueError")

\* dt.strftime("%Y-%m-%d").  The C library decides whether %Y pads a year
\* below 1000 with zeros (glibc does not): year_padded is the platform's choice.
strftime(dt, year_padded) ==
    (IF year_padded THEN zfill(IntToStr(dt.year), 4) ELSE IntToStr(dt.year))
    \o <<"-">> \o zfill(IntToStr(dt.month), 2) \o <<"-">> \o zfill(IntToStr(dt.day), 2)

\* the civil date of day number `days` counted from 1970-01-01
CivilFromDays(days) ==
    LET z == days + 719468
        era == z \div 146097
        doe == z - era * 146097
        yoe == (doe - doe \div 1460 + doe \div 36524 - doe \div 146096) \div 365
        doy == doe - (365 * yoe + yoe \div 4 - yoe \div 100)
        mp == (5 * doy + 2) \div 153
        day == doy - (153 * mp + 2) \div 5 + 1
        month == IF mp < 10 THEN mp + 3 ELSE mp - 9
        year == yoe + era * 400 + (IF month <= 2 THEN 1 ELSE 0)
    IN [year |-> year, month |-> month, day |-> day]

\* datetime.fromtimestamp(float(ts)): the local date at that instant, in a
\* zone utc_offset seconds east of UTC; a year outside 1..9999 is a ValueError
fromtimestamp(ts, utc_offset) ==
    LET dt == CivilFromDays((ts + utc_offset) \div 86400)
    IN IF dt.year >= 1 /\ dt.year <= 9999 THEN Return(dt) ELSE Raise("ValueError")

---------------------------------------------------------------------------
(* bot/extraction.py *)

DUTCH_MONTHS ==
    {<<<<"j","a","n">>, 1>>, <<<<"j","a","n","u","a","r","i">>, 1>>,
     <<<<"f","e","b">>, 2>>, <<<<"f","e","b","r","u","a","r","i">>, 2>>,
     <<<<"m","r","t">>, 3>>, <<<<"m","a","a","r","t">>, 3>>,
     <<<<"a","p","r">>, 4>>, <<<<"a","p","r","i","l">>, 4>>,
     <<<<"m","e","i">>, 5>>,
     <<<<"j","u","n">>, 6>>, <<<<"j","u","n","i">>, 6>>,
     <<<<"j","u","l">>, 7>>, <<<<"j","u","l","i">>, 7>>,
     <<<<"a","u","g">>, 8>>, <<<<"a","u","g","u","s","t","u","s">>, 8>>,
     <<<<"s","e","p">>, 9>>, <<<<"s","e","p","t","e","m","b","e","r">>, 9>>,
     <<<<"o","k","t">>, 10>>, <<<<"o","k","t","o","b","e","r">>, 10>>,
     <<<<"n","o","v">>, 11>>, <<<<"n","o","v","e","m","b","e","r">>, 11>>,
     <<<<"d","e","c">>, 12>>, <<<<"d","e","c","e","m","b","e","r">>, 12>>}

\* DUTCH_MONTHS.get(key): the month number, or 0 for None (both are falsy)
DUTCH_MONTHS_get(key) ==
    IF \E e \in DUTCH_MONTHS : e[1] = key
    THEN (CHOOSE e \in DUTCH_MONTHS : e[1] = key)[2]
    ELSE 0

\* clean_val with a lone comma read as a thousands separator
clean_val_comma_as_thousands(raw_val) ==
    IF Contains(raw_val, ".") /\ Contains(raw_val, ",")
    THEN IF rfind(raw_val, ",") > rfind(raw_val, ".")
         THEN replace(replace(raw_val, ".", <<>>), ",", <<".">>)
         ELSE replace(raw_val, ",", <<>>)
    ELSE replace(raw_val, ",", <<>>)

\* clean_val that takes the comma for the decimal point wherever it stands
clean_val_european_only(raw_val) ==
    IF Contains(raw_val, ",")
    THEN replace(replace(raw_val, ".", <<>>), ",", <<".">>)
    ELSE raw_val

\* the separator clean-up of parse_amount
clean_val(raw_val) ==
    IF Contains(raw_val, ".") /\ Contains(raw_val, ",")
    THEN IF rfind(raw_val, ",") > rfind(raw_val, ".")
         THEN replace(replace(raw_val, ".", <<>>), ",", <<".">>)
         ELSE replace(raw_val, ",", <<>>)
    ELSE IF Contains(raw_val, ",")
    THEN replace(raw_val, ",", <<".">>)
    ELSE raw_val

\* the call of Decimal without the try/except around it
decimal_uncaught(dec) == dec

\* the try/except of parse_amount around Decimal(clean_val)
decimal_or_none(dec) ==
    IF dec.exc \in {"InvalidOperation", "ValueError"} THEN Return(NoneDecimal) ELSE dec

\* parse_amount from its match on
parse_amount_match(match) ==
    IF match = NoMatch THEN Return(NoneDecimal)
    ELSE decimal_or_none(Decimal(clean_val(Or(match.g1, match.g2))))

parse_amount(txt) ==
    IF ~Truthy(txt) THEN Return(NoneDecimal)
    ELSE parse_amount_match(AMOUNT_PATTERN_search(txt, 1))

\* the try/except of _format_date around dt_obj = strptime(...)
format_or_reject(dt_obj, year_padded) ==
    IF dt_obj.exc = "none" THEN Return(<<strftime(dt_obj.val, year_padded), TRUE>>)
    ELSE IF dt_obj.exc = "ValueError" THEN Return(<<None, FALSE>>)
    ELSE dt_obj

\* _format_date that reads the token month first
_format_date_month_first(d, m, y, year_padded) ==
    format_or_reject(
        strptime((IF Len(y) = 2 THEN <<"2", "0">> \o y ELSE y)
                 \o <<"-">> \o zfill(d, 2) \o <<"-">> \o zfill(m, 2)),
        year_padded)

\* _format_date that formats the parts without building the date
_format_date_unvalidated(d, m, y, year_padded) ==
    Return(<<(IF Len(y) = 2 THEN <<"2", "0">> \o y ELSE y)
             \o <<"-">> \o zfill(m, 2) \o <<"-">> \o zfill(d, 2), TRUE>>)

\* _format_date that reads a 2-digit year as 19yy
_format_date_century_19(d, m, y, year_padded) ==
    format_or_reject(
        strptime((IF Len(y) = 2 THEN <<"1", "9">> \o y ELSE y)
                 \o <<"-">> \o zfill(m, 2) \o <<"-">> \o zfill(d, 2)),
        year_padded)

_format_date(d, m, y, year_padded) ==
    format_or_reject(
        strptime((IF Len(y) = 2 THEN <<"2", "0">> \o y ELSE y)
                 \o <<"-">> \o zfill(m, 2) \o <<"-">> \o zfill(d, 2)),
        year_padded)

\* the textual attempt of parse_date, given its match
parse_date_textual(match, year_padded) ==
    IF match # NoMatch /\ DUTCH_MONTHS_get(lower(match.g2)) # 0
    THEN _format_date(match.g1, IntToStr(DUTCH_MONTHS_get(lower(match.g2))), match.g3, year_padded)
    ELSE Return(<<None, FALSE>>)

\* the numeric attempt going on to the textual one when its token is no
\* calendar date
parse_date_numeric_tries_on(match, txt, year_padded) ==
    IF match # NoMatch /\ _format_date(match.g1, match.g2, match.g3, year_padded).val[2]
    THEN _format_date(match.g1, match.g2, match.g3, year_padded)
    ELSE parse_date_textual(DATE_TEXTUAL_PATTERN_search(txt, 1), year_padded)

\* the numeric attempt of parse_date, given its match, and what follows it
parse_date_numeric(match, txt, year_padded) ==
    IF match # NoMatch
    THEN _format_date(match.g1, match.g2, match.g3, year_padded)
    ELSE parse_date_textual(DATE_TEXTUAL_PATTERN_search(txt, 1), year_padded)

parse_date(txt, year_padded) ==
    IF ~Truthy(txt) THEN Return(<<None, FALSE>>)
    ELSE parse_date_numeric(DATE_NUMERIC_PATTERN_search(txt, 1), txt, year_padded)

\* pattern.search(s, pos) for the pattern of that name
search(pattern, s, pos) ==
    CASE pattern = "AMOUNT_PATTERN" -> AMOUNT_PATTERN_search(s, pos)
      [] pattern = "DATE_NUMERIC_PATTERN" -> DATE_NUMERIC_PATTERN_search(s, pos)
      [] pattern = "DATE_TEXTUAL_PATTERN" -> DATE_TEXTUAL_PATTERN_search(s, pos)

RECURSIVE sub_from(_, _, _, _), sub_match(_, _, _, _, _)
\* the part of pattern.sub(repl, s) that comes from s[pos:]: every match,
\* leftmost first and none overlapping, is replaced by repl
sub_from(pattern, repl, s, pos) == sub_match(pattern, repl, s, pos, search(pattern, s, pos))

\* the text from pos to the end of the next match, that match replaced, and
\* the rest of the substitution after it
sub_match(pattern, repl, s, pos, match) ==
    IF match = NoMatch THEN Slice(s, pos, Len(s) + 1)
    ELSE Slice(s, pos, match.start) \o repl \o sub_from(pattern, repl, s, match.end)

\* pattern.sub(repl, s)
sub(pattern, repl, s) == sub_from(pattern, repl, s, 1)

parse_description(txt) ==
    IF ~Truthy(txt) THEN <<>>
    ELSE join(<<" ">>,
              split(sub("DATE_TEXTUAL_PATTERN", <<" ">>,
                        sub("DATE_NUMERIC_PATTERN", <<" ">>,
                            sub("AMOUNT_PATTERN", <<" ">>, txt)))))

\* the assembly flagging every date it returns as extracted
assemble_flag_set(amt, date, fallback, descr, year_padded) ==
    Return([amount |-> amt.val,
            transaction_date |-> IF date.val[2] THEN date.val[1]
                                 ELSE strftime(fallback.val, year_padded),
            date_extracted |-> TRUE,
            description |-> descr])

\* extract_transaction_data once parse_amount and parse_date have been
\* called: an exception of either, or of fromtimestamp on the fallback path,
\* leaves the function; otherwise the record is assembled
assemble(amt, date, fallback, descr, year_padded) ==
    IF amt.exc # "none" THEN amt
    ELSE IF date.exc # "none" THEN date
    ELSE IF ~date.val[2] /\ fallback.exc # "none" THEN fallback
    ELSE Return([amount |-> amt.val,
                 transaction_date |-> IF date.val[2] THEN date.val[1]
                                      ELSE strftime(fallback.val, year_padded),
                 date_extracted |-> date.val[2],
                 description |-> descr])

extract_transaction_data(txt, ts, utc_offset, year_padded) ==
    assemble(parse_amount(txt), parse_date(txt, year_padded),
             fromtimestamp(ts, utc_offset), parse_description(txt), year_padded)

---------------------------------------------------------------------------
(* The messages the extractor is called on *)

\* the longest message built from the lexicon, in tokens
MaxTokens == 2

\* the longest message spelled out character by character
MaxChars == 5

\* the longest numeric token next to a euro sign
MaxRaw == 4

RECURSIVE Concat(_)
\* the concatenation of a sequence of strs
Concat(parts) == IF parts = <<>> THEN <<>> ELSE Head(parts) \o Concat(Tail(parts))

\* every str of at most n pieces drawn from the set `pieces`
Strings(pieces, n) == {Concat(p) : p \in UNION {[1..k -> pieces] : k \in 0..n}}

Lexicon ==
    {<<"€"," ","1","2",",","5","0">>, <<"1","2",",","5","0"," ","€">>,
     <<"1","2"," ","j","a","n"," ","2","0","2","4">>,
     <<"3","0","/","0","2","/","2","0","2","4">>,
     <<"1"," ","m","e","i"," ","2","4">>,
     <<"1","/","1","/","2","4">>,
     <<" ">>, <<"1">>, <<"x">>, <<"€">>, <<",">>}

\* messages made of whole tokens
TokenTexts == Strings(Lexicon, MaxTokens)

\* messages over a small alphabet, every arrangement of it
CharTexts == Strings({<<"€">>, <<" ">>, <<"1">>}, MaxChars)

\* an amount token of digits and separators, before or after the euro sign
RawTokens == Strings({<<"1">>, <<".">>, <<",">>}, MaxRaw) \ {<<>>}

AmountTexts ==
    {<<"€", " ">> \o r : r \in RawTokens} \cup {r \o <<" ", "€">> : r \in RawTokens}

\* dates day-month-year, numeric and with a month word, on and off the calendar
DayTokens == {<<"0">>, <<"1">>, <<"2","8">>, <<"2","9">>, <<"3","0">>, <<"3","1">>, <<"3","2">>}

MonthTokens == {<<"0">>, <<"1">>, <<"2">>, <<"0","2">>, <<"4">>, <<"1","2">>, <<"1","3">>}

MonthWords == {<<"j","a","n">>, <<"f","e","b">>, <<"F","E","B">>, <<"m","r","t">>,
               <<"A","p","r","i","l">>, <<"x","y","z">>}

YearTokens == {<<"2","3">>, <<"2","4">>, <<"0","0">>, <<"1","9","0","0">>, <<"2","0","0","0">>,
               <<"2","0","2","4">>, <<"2","0","2">>, <<"0","0","0","0">>, <<"0","9","9","9">>}

DateTexts ==
    {d \o <<"/">> \o m \o <<"/">> \o y : d \in DayTokens, m \in MonthTokens, y \in YearTokens}
    \cup {d \o <<" ">> \o w \o <<" ">> \o y : d \in DayTokens, w \in MonthWords, y \in YearTokens}

\* two date tokens in one message, valid and invalid, in either order
DateTokens ==
    {<<"3","0","/","0","2","/","2","0","2","4">>, <<"1","/","1","/","2","4">>,
     <<"1","2"," ","j","a","n"," ","2","0","2","4">>, <<"1"," ","m","e","i"," ","2","4">>,
     <<"5"," ","x"," ","1","2">>,
     <<"1","/","1","/","2","0","2">>, <<"1"," ","j","a","n"," ","2","0","2">>}

PairTexts == {a \o <<" ">> \o b : a \in DateTokens, b \in DateTokens}

\* the worked examples of the design notes
ExampleTexts ==
    {None,
     <<"L","u","n","c","h"," ","1","2"," ","j","a","n"," ","2","0","2","4"," ","€"," ","1","5",",","0","0"," ","b","i","j"," ","A","l","b","e","r","t"," ","H","e","i","j","n">>,
     <<"n","o"," ","d","a","t","e","s"," ","o","r"," ","a","m","o","u","n","t","s"," ","h","e","r","e">>,
     <<"€"," ","1",".","2","5","0",",","7","5">>,
     <<"1",",","2","5","0",".","7","5"," ","€">>,
     <<"€"," ","1",".","0","0","0">>}

Texts == TokenTexts \cup CharTexts \cup AmountTexts \cup DateTexts \cup PairTexts \cup ExampleTexts

\* fallback timestamps: 2023-11-14 22:13:20, 2024-01-01 00:00:00 and
\* 2000-02-29 23:59:59 UTC
Timestamps == {1700000000, 1704067200, 951868799}

\* the local zone of the process, in seconds east of UTC
UtcOffsets == {0, 3600}

---------------------------------------------------------------------------
(* The record store: its values *)

\* the largest id the table's sequence hands out
MaxId == 2

\* the (channel_id, timestamp) identities of the messages of the channel
Keys == {<<"C1", 1700000000>>, <<"C1", 1704067200>>}

\* what a message event or a history entry carries: its text and its files
Payloads ==
    {[text |-> <<"x"," ","1","/","1","/","2","4">>, files |-> <<>>],
     [text |-> <<"€"," ","1">>, files |-> <<"receipt">>]}

\* the subtypes of a message event; "message" stands for an event without one
Subtypes == {"message", "message_changed", "message_deleted", "channel_join"}

STATUS_OPTIONS == {"new", "in_progress", "confirmed", "cancelled"}

\* the descriptions a reviewer types into the editor
ReviewerDescriptions == {<<"n","o","t","e">>}

\* the callers of the store functions: the main thread during the start-up
\* sync, and the listener's worker threads
Threads == {"t1"}

Workers == {"main"} \cup Threads

\* no row under a key, and no row loaded in the editor
NoRow == [id |-> 0]

Idle == [at |-> "idle"]

StoreInit ==
    /\ messages = [k \in Keys |-> NoRow]
    /\ next_id = 1
    /\ bot = [at |-> "backfill_select", rows |-> {}]
    /\ handler = [w \in Workers |-> Idle]
    /\ editor = NoRow

---------------------------------------------------------------------------
(* The calls *)

NoRecord == [amount |-> NoneDecimal, transaction_date |-> None,
             date_extracted |-> FALSE, description |-> <<>>]

Init ==
    /\ text \in Texts
    /\ pc = "idle"
    /\ message_ts = 0
    /\ platform = [utc_offset |-> 0, year_padded |-> FALSE]
    /\ amount = NoneDecimal
    /\ date_result = <<None, FALSE>>
    /\ description = <<>>
    /\ record = NoRecord
    /\ raised = "none"
    /\ StoreInit

\* the value a call leaves behind: what it returned, or the old value when it raised
Returned(r, old) == IF r.exc = "none" THEN r.val ELSE old

\* parse_amount is left with outcome r
Leave_parse_amount(r) ==
    /\ raised' = r.exc
    /\ amount' = Returned(r, amount)

Call_parse_amount ==
    /\ pc = "idle"
    /\ Leave_parse_amount(parse_amount(text))
    /\ pc' = "parse_amount"
    /\ UNCHANGED <<text, message_ts, platform, date_result, description, record>>
    /\ UNCHANGED storeVars

\* parse_date is left with outcome r
Leave_parse_date(r) ==
    /\ raised' = r.exc
    /\ date_result' = Returned(r, date_result)

Call_parse_date ==
    /\ pc = "idle"
    /\ \E year_padded \in BOOLEAN :
        /\ Leave_parse_date(parse_date(text, year_padded))
        /\ platform' = [platform EXCEPT !.year_padded = year_padded]
    /\ pc' = "parse_date"
    /\ UNCHANGED <<text, message_ts, amount, description, record>>
    /\ UNCHANGED storeVars

Call_parse_description ==
    /\ pc = "idle"
    /\ description' = parse_description(text)
    /\ raised' = "none"
    /\ pc' = "parse_description"
    /\ UNCHANGED <<text, message_ts, platform, amount, date_result, record>>
    /\ UNCHANGED storeVars

\* extract_transaction_data is left with outcome r
Leave_extract_transaction_data(r) ==
    /\ raised' = r.exc
    /\ record' = Returned(r, record)

Call_extract_transaction_data ==
    /\ pc = "idle"
    /\ \E ts \in Timestamps, utc_offset \in UtcOffsets, year_padded \in BOOLEAN :
        /\ Leave_extract_transaction_data(extract_transaction_data(text, ts, utc_offset, year_padded))
        /\ message_ts' = ts
        /\ platform' = [utc_offset |-> utc_offset, year_padded |-> year_padded]
    /\ pc' = "extract_transaction_data"
    /\ UNCHANGED <<text, amount, date_result, description>>
    /\ UNCHANGED storeVars

Next ==
    \/ Call_parse_amount
    \/ Call_parse_date
    \/ Call_parse_description
    \/ Call_extract_transaction_data

Spec == Init /\ [][Next]_vars

---------------------------------------------------------------------------
(* The record store: the bot *)

\* the rows backfill_data's SELECT fetches: id, text and timestamp of the rows
\* with status 'new' and a NULL amount or transaction_date
backfill_fetch(table) ==
    {[id |-> table[k].id, text |-> table[k].text, timestamp |-> k[2]] :
        k \in {j \in Keys : /\ table[j] # NoRow
                             /\ table[j].status = "new"
                             /\ (table[j].amount = NoneDecimal \/ table[j].transaction_date = None)}}

\* backfill_data's UPDATE of one row with the extracted data
backfill_set(row, data) ==
    [row EXCEPT !.amount = data.amount,
                !.transaction_date = data.transaction_date,
                !.date_extracted = data.date_extracted,
                !.description = data.description]

\* the fetched row with that id
fetched(rows, id) == CHOOSE f \in rows : f.id = id

\* the table after backfill_data's loop over the fetched rows
backfill_loop(table, rows, utc_offset, year_padded) ==
    [k \in Keys |->
        IF table[k] # NoRow /\ \E f \in rows : f.id = table[k].id
        THEN backfill_set(table[k],
                          extract_transaction_data(fetched(rows, table[k].id).text,
                                                   fetched(rows, table[k].id).timestamp,
                                                   utc_offset, year_padded).val)
        ELSE table[k]]

\* an exception in the loop leaves the transaction to be rolled back
backfill_raises(rows, utc_offset, year_padded) ==
    \E f \in rows :
        extract_transaction_data(f.text, f.timestamp, utc_offset, year_padded).exc # "none"

\* backfill_data, its SELECT
backfill_data_select ==
    /\ bot.at = "backfill_select"
    /\ bot' = [at |-> "backfill_update", rows |-> backfill_fetch(messages)]
    /\ UNCHANGED <<messages, next_id, handler, editor, extractionVars>>

\* backfill_data, its loop of UPDATEs and the commit
backfill_data_update ==
    /\ bot.at = "backfill_update"
    /\ messages' = IF backfill_raises(bot.rows, platform.utc_offset, platform.year_padded)
                   THEN messages
                   ELSE backfill_loop(messages, bot.rows, platform.utc_offset, platform.year_padded)
    /\ bot' = [at |-> "sync", rows |-> {}]
    /\ UNCHANGED <<next_id, handler, editor, extractionVars>>

\* download_files: the paths of the files saved, None when the list is empty
\* or no download succeeded
download_files(files_list) == IF files_list = <<>> THEN {None} ELSE {None, files_list}

\* process_and_save_message up to the end of its first transaction, the
\* SELECT of the status: it returns when the row is not 'new'
process_and_save_message_check(w, key, payload) ==
    handler' = IF messages[key] # NoRow /\ messages[key].status # "new"
               THEN handler
               ELSE [handler EXCEPT ![w] = [at |-> "upsert", key |-> key,
                                            text |-> payload.text, files |-> payload.files]]

\* the row the INSERT .. ON CONFLICT DO UPDATE leaves under the key
upsert(row, id, txt, file_path, data) ==
    IF row = NoRow
    THEN [id |-> id, text |-> txt, file_path |-> file_path,
          amount |-> data.amount, transaction_date |-> data.transaction_date,
          date_extracted |-> data.date_extracted, description |-> data.description,
          status |-> "new"]
    ELSE [row EXCEPT !.text = txt, !.file_path = file_path,
                     !.amount = data.amount,
                     !.transaction_date = data.transaction_date,
                     !.date_extracted = data.date_extracted,
                     !.description = data.description]

\* the second transaction of process_and_save_message with the outcome r of
\* the extraction: an exception is logged and nothing is written
process_and_save_message_write(w, r, file_path) ==
    IF r.exc # "none" THEN UNCHANGED <<messages, next_id>>
    ELSE /\ messages' = [messages EXCEPT ![handler[w].key] =
                             upsert(@, next_id, handler[w].text, file_path, r.val)]
         /\ next_id' = IF messages[handler[w].key] = NoRow THEN next_id + 1 ELSE next_id

\* process_and_save_message from the extraction on
process_and_save_message_upsert(w) ==
    /\ handler[w].at = "upsert"
    /\ messages[handler[w].key] # NoRow \/ next_id <= MaxId
    /\ \E file_path \in download_files(handler[w].files) :
        process_and_save_message_write(
            w,
            extract_transaction_data(handler[w].text, handler[w].key[2],
                                     platform.utc_offset, platform.year_padded),
            file_path)
    /\ handler' = [handler EXCEPT ![w] = Idle]
    /\ UNCHANGED <<bot, editor, extractionVars>>

\* delete_message_from_db up to its SELECT: it returns when there is no row or
\* the row is not 'new'
delete_message_from_db_check(w, key) ==
    handler' = IF messages[key] # NoRow /\ messages[key].status = "new"
               THEN [handler EXCEPT ![w] = [at |-> "delete", key |-> key]]
               ELSE handler

\* delete_message_from_db, its DELETE and the commit
delete_message_from_db_delete(w) ==
    /\ handler[w].at = "delete"
    /\ messages' = [messages EXCEPT ![handler[w].key] = NoRow]
    /\ handler' = [handler EXCEPT ![w] = Idle]
    /\ UNCHANGED <<next_id, bot, editor, extractionVars>>

\* sync_missing_data: the main thread hands a message of the channel history to
\* process_and_save_message
sync_missing_data ==
    /\ bot.at = "sync"
    /\ handler["main"].at = "idle"
    /\ \E key \in Keys, payload \in Payloads :
        process_and_save_message_check("main", key, payload)
    /\ UNCHANGED <<messages, next_id, bot, editor, extractionVars>>

\* the entry point after the sync: the listener starts
SocketModeHandler_start ==
    /\ bot.at = "sync"
    /\ handler["main"].at = "idle"
    /\ bot' = [bot EXCEPT !.at = "serving"]
    /\ UNCHANGED <<messages, next_id, handler, editor, extractionVars>>

\* handle_message_events on a worker thread of the listener
handle_message_events(t) ==
    /\ bot.at = "serving"
    /\ handler[t].at = "idle"
    /\ \E subtype \in Subtypes, key \in Keys, payload \in Payloads :
        IF subtype = "channel_join" THEN UNCHANGED handler
        ELSE IF subtype = "message_deleted" THEN delete_message_from_db_check(t, key)
        ELSE process_and_save_message_check(t, key, payload)
    /\ UNCHANGED <<messages, next_id, bot, editor, extractionVars>>

\* the bot's process ends and is started again: the entry point runs from
\* backfill_data on
main ==
    /\ bot' = [at |-> "backfill_select", rows |-> {}]
    /\ handler' = [w \in Workers |-> Idle]
    /\ UNCHANGED <<messages, next_id, editor, extractionVars>>

---------------------------------------------------------------------------
(* The record store: the dashboard *)

\* the script run: load_data, and the reviewer opens a row in the editor
load_data ==
    /\ \E k \in Keys :
        /\ messages[k] # NoRow
        /\ editor' = [id |-> messages[k].id, status |-> messages[k].status,
                      description |-> messages[k].description]
    /\ UNCHANGED <<messages, next_id, bot, handler, extractionVars>>

\* the UPDATE of the Save Changes handler: the changed columns of the row
\* with the loaded id
update_row(row, id, changes) ==
    IF row # NoRow /\ row.id = id
    THEN [row EXCEPT !.status = IF "status" \in DOMAIN changes THEN changes.status ELSE @,
                     !.description = IF "description" \in DOMAIN changes
                                     THEN changes.description ELSE @]
    ELSE row

\* the edits a reviewer can make to the loaded row: a new status, a new
\* description, or both
Edits(loaded) ==
    {[status |-> st] : st \in STATUS_OPTIONS \ {loaded.status}}
    \cup {[description |-> d] : d \in ReviewerDescriptions \ {loaded.description}}
    \cup {[status |-> st, description |-> d] :
             st \in STATUS_OPTIONS \ {loaded.status},
             d \in ReviewerDescriptions \ {loaded.description}}

\* the Save Changes handler: the differences between the edited and the loaded
\* row are written by id, and the script runs again
save_changes ==
    /\ editor # NoRow
    /\ \E changes \in Edits(editor) :
        messages' = [k \in Keys |-> update_row(messages[k], editor.id, changes)]
    /\ editor' = NoRow
    /\ UNCHANGED <<next_id, bot, handler, extractionVars>>

StoreNext ==
    \/ backfill_data_select
    \/ backfill_data_update
    \/ sync_missing_data
    \/ SocketModeHandler_start
    \/ \E t \in Threads : handle_message_events(t)
    \/ \E w \in Workers : process_and_save_message_upsert(w)
    \/ \E t \in Threads : delete_message_from_db_delete(t)
    \/ main
    \/ load_data
    \/ save_changes

\* the store starts empty; the extractor's variables keep the environment the
\* bot runs in
StoreStart ==
    /\ text = None
    /\ pc = "idle"
    /\ message_ts = 0
    /\ platform = [utc_offset |-> 0, year_padded |-> TRUE]
    /\ amount = NoneDecimal
    /\ date_result = <<None, FALSE>>
    /\ description = <<>>
    /\ record = NoRecord
    /\ raised = "none"
    /\ StoreInit

StoreSpec == StoreStart /\ [][StoreNext]_vars

---------------------------------------------------------------------------
(* Vocabulary of the properties *)

\* part occurs in s
ContainsStr(s, part) ==
    \E p \in 1..(Len(s) - Len(part) + 1) : SubSeq(s, p, p + Len(part) - 1) = part

\* a is the Decimal coef * 10^(-exp), whatever number of places it is written with
DecimalIs(a, coef, exp) == a.tag = "Decimal" /\ a.coef * 10^exp = coef * 10^a.exp

\* the matched text of a match
MatchedText(s, m) == Slice(s, m.start, m.end)

LunchText ==
    <<"L","u","n","c","h"," ","1","2"," ","j","a","n"," ","2","0","2","4"," ","€"," ","1","5",",","0","0"," ","b","i","j"," ","A","l","b","e","r","t"," ","H","e","i","j","n">>

\* the local date of the fallback timestamps, from the calendar: 1700000000 is
\* 2023-11-14 22:13:20 UTC, 1704067200 is 2024-01-01 00:00:00 UTC and
\* 951868799 is 2000-02-29 23:59:59 UTC, one second before 1 March
ExpectedLocalDate(ts, utc_offset) ==
    CASE ts = 1700000000 -> <<"2","0","2","3","-","1","1","-","1","4">>
      [] ts = 1704067200 -> <<"2","0","2","4","-","0","1","-","0","1">>
      [] ts = 951868799 /\ utc_offset = 0 -> <<"2","0","0","0","-","0","2","-","2","9">>
      [] ts = 951868799 /\ utc_offset = 3600 -> <<"2","0","0","0","-","0","3","-","0","1">>

\* a date string: a year, '-', two digits, '-', two digits
IsDateString(str) ==
    LET n == Len(str)
    IN /\ str # None
       /\ n >= 7
       /\ str[n - 5] = "-" /\ str[n - 2] = "-"
       /\ \A k \in (1..n) \ {n - 5, n - 2} : str[k] \in Digits

\* the year, month and day a date string names
DateFields(str) ==
    LET n == Len(str)
    IN [year |-> ToInt(SubSeq(str, 1, n - 6)),
        month |-> ToInt(SubSeq(str, n - 4, n - 3)),
        day |-> ToInt(SubSeq(str, n - 1, n))]

MonthLengths == <<31, 28, 31, 30, 31, 30, 31, 31, 30, 31, 30, 31>>

\* the Gregorian calendar: years from 1, a 29th of February in leap years only
OnCalendar(year, month, day) ==
    /\ year >= 1
    /\ month \in 1..12
    /\ day >= 1
    /\ day <= (IF month = 2 /\ (year % 400 = 0 \/ (year % 4 = 0 /\ year % 100 # 0))
               THEN 29 ELSE MonthLengths[month])

\* the date token parse_date reads: the leftmost numeric one, or where the text
\* holds none, the leftmost textual one (NoMatch when there is neither)
SelectedDateToken(s) ==
    LET nm == DATE_NUMERIC_PATTERN_search(s, 1)
    IN IF nm # NoMatch THEN nm ELSE DATE_TEXTUAL_PATTERN_search(s, 1)

\* day, month and year of a date token read in day-month-year order, a month
\* word through the month table (0 when it is no month), a 2-digit year yy as 20yy
TokenFields(m) ==
    [day |-> ToInt(m.g1),
     month |-> IF m.g2 # <<>> /\ m.g2[1] \in Digits THEN ToInt(m.g2)
               ELSE DUTCH_MONTHS_get(lower(m.g2)),
     year |-> IF Len(m.g3) = 2 THEN 2000 + ToInt(m.g3) ELSE ToInt(m.g3)]

\* a date token that passes calendar validation: a year of 2 or 4 digits and a
\* day that exists
TokenValid(m) ==
    LET f == TokenFields(m)
    IN Len(m.g3) \in {2, 4} /\ OnCalendar(f.year, f.month, f.day)

\* the decimal string the normalisation rules give for a raw amount token: the
\* separator that stands last is the decimal point, the other one is deleted
RuleNormalised(raw) ==
    LET seps == {i \in DOMAIN raw : raw[i] \in {".", ","}}
        point == IF seps = {} THEN "." ELSE raw[Max(seps)]
        kept == SelectSeq(raw, LAMBDA c : c \in Digits \/ c = point)
    IN [k \in DOMAIN kept |-> IF kept[k] = point THEN "." ELSE kept[k]]

\* a well-formed decimal string: digits around at most one point
WellFormedDecimal(str) ==
    /\ \E k \in DOMAIN str : str[k] \in Digits
    /\ Cardinality({k \in DOMAIN str : str[k] = "."}) <= 1

\* the raw token of an amount match
RawToken(m) == IF m.g1 # None THEN m.g1 ELSE m.g2

---------------------------------------------------------------------------
(* Properties *)

\* C1: extract_transaction_data("Lunch 12 jan 2024 € 15,00 bij Albert Heijn",
\* 1700000000.0) returns amount 15.00, transaction_date "2024-01-12",
\* date_extracted true and description "Lunch bij Albert Heijn".
C1_EndToEnd ==
    (pc = "extract_transaction_data" /\ text = LunchText /\ message_ts = 1700000000)
    => /\ DecimalIs(record.amount, 1500, 2)
       /\ record.transaction_date = <<"2","0","2","4","-","0","1","-","1","2">>
       /\ record.date_extracted = TRUE
       /\ record.description = <<"L","u","n","c","h"," ","b","i","j"," ","A","l","b","e","r","t"," ","H","e","i","j","n">>

\* C2 as stated: for every text that contains "€ 12,50" or "12,50 €",
\* parse_amount returns 12.50.
C2_AnyTextContaining ==
    (pc = "parse_amount"
        /\ (\/ ContainsStr(text, <<"€"," ","1","2",",","5","0">>)
            \/ ContainsStr(text, <<"1","2",",","5","0"," ","€">>)))
    => DecimalIs(amount, 1250, 2)

\* C2 amended: for every text whose leftmost amount token is "€ 12,50" or
\* "12,50 €", parse_amount returns 12.50.
C2_LeftmostAmountToken ==
    LET m == AMOUNT_PATTERN_search(text, 1)
    IN (pc = "parse_amount" /\ m # NoMatch
          /\ MatchedText(text, m) \in {<<"€"," ","1","2",",","5","0">>, <<"1","2",",","5","0"," ","€">>})
       => DecimalIs(amount, 1250, 2)

\* parse_amount has returned 12.50 for a longer text whose leftmost amount token
\* is "12,50 €"
C2_Witness ==
    /\ pc = "parse_amount"
    /\ Len(text) > 7
    /\ MatchedText(text, AMOUNT_PATTERN_search(text, 1)) = <<"1","2",",","5","0"," ","€">>
    /\ DecimalIs(amount, 1250, 2)

\* C3 as stated: for every text that contains "12 jan 2024", parse_date returns
\* ("2024-01-12", true).
C3_AnyTextContaining ==
    (pc = "parse_date" /\ ContainsStr(text, <<"1","2"," ","j","a","n"," ","2","0","2","4">>))
    => date_result = <<<<"2","0","2","4","-","0","1","-","1","2">>, TRUE>>

\* C3 amended: for every text that holds no numeric date token and whose
\* leftmost textual date token is "12 jan 2024", parse_date returns
\* ("2024-01-12", true).
C3_LeftmostDateToken ==
    LET tm == DATE_TEXTUAL_PATTERN_search(text, 1)
    IN (pc = "parse_date" /\ DATE_NUMERIC_PATTERN_search(text, 1) = NoMatch /\ tm # NoMatch
          /\ MatchedText(text, tm) = <<"1","2"," ","j","a","n"," ","2","0","2","4">>)
       => date_result = <<<<"2","0","2","4","-","0","1","-","1","2">>, TRUE>>

\* parse_date has returned ("2024-01-12", true) for a text that goes on after
\* its leftmost date token "12 jan 2024"
C3_Witness ==
    /\ pc = "parse_date"
    /\ Len(text) > 11
    /\ DATE_NUMERIC_PATTERN_search(text, 1) = NoMatch
    /\ DATE_TEXTUAL_PATTERN_search(text, 1) # NoMatch
    /\ MatchedText(text, DATE_TEXTUAL_PATTERN_search(text, 1)) = <<"1","2"," ","j","a","n"," ","2","0","2","4">>
    /\ date_result = <<<<"2","0","2","4","-","0","1","-","1","2">>, TRUE>>

\* C4 as stated: for every text that contains "30/02/2024", parse_date returns
\* (None, false) and extract_transaction_data returns date_extracted = false
\* with the date of the fallback timestamp.
C4_AnyTextContaining ==
    ContainsStr(text, <<"3","0","/","0","2","/","2","0","2","4">>)
    => /\ pc = "parse_date" => date_result = <<None, FALSE>>
       /\ pc = "extract_transaction_data"
            => /\ record.date_extracted = FALSE
               /\ record.transaction_date = ExpectedLocalDate(message_ts, platform.utc_offset)

\* C4 amended: for every text whose leftmost numeric date token is
\* "30/02/2024", parse_date returns (None, false) and extract_transaction_data
\* returns date_extracted = false with the date of the fallback timestamp.
C4_LeftmostNumericToken ==
    LET nm == DATE_NUMERIC_PATTERN_search(text, 1)
    IN (nm # NoMatch /\ MatchedText(text, nm) = <<"3","0","/","0","2","/","2","0","2","4">>)
       => /\ pc = "parse_date" => date_result = <<None, FALSE>>
          /\ pc = "extract_transaction_data"
               => /\ record.date_extracted = FALSE
                  /\ record.transaction_date = ExpectedLocalDate(message_ts, platform.utc_offset)

\* extract_transaction_data has fallen back to the timestamp's date, 1 March
\* 2000 in a zone one hour east, for a text with "30/02/2024" and a valid
\* textual date after it
C4_Witness ==
    /\ pc = "extract_transaction_data"
    /\ text = <<"3","0","/","0","2","/","2","0","2","4"," ","1","2"," ","j","a","n"," ","2","0","2","4">>
    /\ record.date_extracted = FALSE
    /\ record.transaction_date = <<"2","0","0","0","-","0","3","-","0","1">>

\* C5: the record of extract_transaction_data always has a transaction_date;
\* date_extracted is true exactly when transaction_date is the date parse_date
\* recovered from the text, and when it is false transaction_date is the
\* calendar date of the fallback timestamp.
C5_DatePopulated ==
    pc = "extract_transaction_data"
    => LET parsed == parse_date(text, platform.year_padded).val
       IN /\ IsDateString(record.transaction_date)
          /\ record.date_extracted = (parsed[1] # None /\ record.transaction_date = parsed[1])
          /\ record.date_extracted = parsed[2]
          /\ ~record.date_extracted
               => record.transaction_date = ExpectedLocalDate(message_ts, platform.utc_offset)

\* extract_transaction_data has returned the fallback date for an absent text
C5_Witness ==
    /\ pc = "extract_transaction_data"
    /\ text = None
    /\ message_ts = 1704067200
    /\ record.date_extracted = FALSE
    /\ record.transaction_date = <<"2","0","2","4","-","0","1","-","0","1">>

\* C6: parse_description is idempotent: applied to its own result it returns
\* that result unchanged.
C6_Idempotent ==
    pc = "parse_description" => parse_description(description) = description

\* C7: no call raises, whatever the text: an amount token that is no decimal
\* number gives amount None and a date token that is no calendar date gives
\* (None, false).
C7_NeverRaises ==
    /\ raised = "none"
    /\ pc = "parse_amount"
         => LET m == AMOUNT_PATTERN_search(text, 1)
            IN (m # NoMatch /\ ~WellFormedDecimal(RuleNormalised(RawToken(m))))
               => amount = NoneDecimal
    /\ pc = "parse_date"
         => LET m == SelectedDateToken(text)
            IN (m # NoMatch /\ ~TokenValid(m)) => date_result = <<None, FALSE>>
    /\ pc = "parse_description" => description # None
    /\ pc = "extract_transaction_data" => record # NoRecord

\* parse_amount has returned None for an amount token with two decimal points
C7_Witness ==
    /\ pc = "parse_amount"
    /\ text = <<"€", " ", "1", ".", "1", ".">>
    /\ amount = NoneDecimal
    /\ raised = "none"

\* C8: parse_amount returns the decimal value of the raw token normalised by
\* the separator rules (the separator that stands last is the decimal point, a
\* lone comma is the decimal point, a lone period stays, no separator is an
\* integer), and None when the normalised token is no decimal number.
C8_SeparatorRules ==
    pc = "parse_amount"
    => LET m == AMOUNT_PATTERN_search(text, 1)
           norm == RuleNormalised(RawToken(m))
       IN /\ (m # NoMatch /\ WellFormedDecimal(norm)) => amount = Decimal(norm).val
          /\ (m # NoMatch /\ ~WellFormedDecimal(norm)) => amount = NoneDecimal
          /\ text = <<"€"," ","1",".","2","5","0",",","7","5">> => DecimalIs(amount, 125075, 2)
          /\ text = <<"1",",","2","5","0",".","7","5"," ","€">> => DecimalIs(amount, 125075, 2)
          /\ text = <<"€"," ","1",".","0","0","0">> => amount = DecimalValue(1000, 3)

\* parse_amount has read a token with both separators, the period last
C8_Witness ==
    /\ pc = "parse_amount"
    /\ text = <<"1",",","2","5","0",".","7","5"," ","€">>
    /\ DecimalIs(amount, 125075, 2)

\* C9: when parse_date returns extracted = true the date exists on the
\* calendar and its day, month and year are those of the matched token read
\* day-month-year, a 2-digit year yy as 20yy; the date is None exactly when
\* extracted = false.
C9_ValidCalendarDate ==
    pc = "parse_date"
    => /\ (date_result[1] = None) = (date_result[2] = FALSE)
       /\ date_result[2]
            => LET m == SelectedDateToken(text)
                   got == DateFields(date_result[1])
               IN /\ IsDateString(date_result[1])
                  /\ OnCalendar(got.year, got.month, got.day)
                  /\ m # NoMatch
                  /\ got = TokenFields(m)
       /\ text = <<"1"," ","m","e","i"," ","2","4">>
            => date_result = <<<<"2","0","2","4","-","0","5","-","0","1">>, TRUE>>

\* parse_date has extracted 29 February of a leap year written with two digits
C9_Witness ==
    /\ pc = "parse_date"
    /\ text = <<"2","9","/","0","2","/","2","4">>
    /\ date_result = <<<<"2","0","2","4","-","0","2","-","2","9">>, TRUE>>

\* C10: parse_date judges the leftmost numeric date token alone when the text
\* has one (not extracted when that token fails validation, whatever follows),
\* and otherwise the leftmost textual token alone (not extracted when its word
\* is no month).
C10_FirstTokenDecides ==
    pc = "parse_date"
    => LET nm == DATE_NUMERIC_PATTERN_search(text, 1)
           tm == DATE_TEXTUAL_PATTERN_search(text, 1)
       IN /\ (nm # NoMatch /\ ~TokenValid(nm)) => date_result = <<None, FALSE>>
          /\ (nm # NoMatch /\ TokenValid(nm))
               => date_result[2] /\ DateFields(date_result[1]) = TokenFields(nm)
          /\ (nm = NoMatch /\ tm # NoMatch /\ DUTCH_MONTHS_get(lower(tm.g2)) = 0)
               => date_result = <<None, FALSE>>

\* parse_date has returned not-extracted for an invalid numeric token that a
\* valid textual date follows
C10_Witness ==
    /\ pc = "parse_date"
    /\ text = <<"3","0","/","0","2","/","2","0","2","4"," ","1"," ","m","e","i"," ","2","4">>
    /\ date_result = <<None, FALSE>>

\* a date token whose year part has three digits, numeric and textual
ThreeDigitYearTokens ==
    {<<"1","/","1","/","2","0","2">>, <<"1"," ","j","a","n"," ","2","0","2">>}

\* a well-formed date token and the date it denotes
WellFormedDateTokens ==
    {<<<<"1","/","1","/","2","4">>, <<"2","0","2","4","-","0","1","-","0","1">>>>,
     <<<<"1","2"," ","j","a","n"," ","2","0","2","4">>, <<"2","0","2","4","-","0","1","-","1","2">>>>,
     <<<<"1"," ","m","e","i"," ","2","4">>, <<"2","0","2","4","-","0","5","-","0","1">>>>}

\* C11: a token whose year part has three digits is no date token:
\* parse_date passes over it and extracts the well-formed date that follows
\* it in the text, and parse_description leaves it in the description
C11_ThreeDigitYearPassedOver ==
    \A a \in ThreeDigitYearTokens :
        /\ \A b \in WellFormedDateTokens :
              (pc = "parse_date" /\ text = a \o <<" ">> \o b[1])
                  => date_result = <<b[2], TRUE>>
        /\ (pc = "parse_description" /\ text = a) => description = a

\* the numeric tokens of s next to a euro sign: the maximal runs [i, j) of
\* digits and separators that hold a digit and have the sign before or after
\* them, white space allowed in between
NumericTokensByMarker(s) ==
    {r \in (1..Len(s)) \X (2..(Len(s) + 1)) :
        /\ r[1] < r[2]
        /\ \A k \in r[1]..(r[2] - 1) : s[k] \in NumChars
        /\ \E k \in r[1]..(r[2] - 1) : s[k] \in Digits
        /\ (r[1] = 1 \/ s[r[1] - 1] \notin NumChars)
        /\ (r[2] = Len(s) + 1 \/ s[r[2]] \notin NumChars)
        /\ \/ \E e \in r[2]..Len(s) :
                 s[e] = "€" /\ \A k \in r[2]..(e - 1) : s[k] \in Spaces
           \/ \E e \in 1..(r[1] - 1) :
                 s[e] = "€" /\ \A k \in (e + 1)..(r[1] - 1) : s[k] \in Spaces}

\* the text of the leftmost of them
LeftmostNumericToken(s) ==
    LET r == CHOOSE t \in NumericTokensByMarker(s) :
                 \A u \in NumericTokensByMarker(s) : t[1] <= u[1]
    IN Slice(s, r[1], r[2])

\* C12: whenever the text holds a numeric token next to a euro sign,
\* parse_amount selects the leftmost such token: the token it reads holds a
\* digit, and a run of '.' and ',' alone next to the sign is never selected
C12_LeftmostNumericTokenSelected ==
    (pc = "parse_amount" /\ Truthy(text) /\ NumericTokensByMarker(text) # {})
        => /\ RawToken(AMOUNT_PATTERN_search(text, 1)) = LeftmostNumericToken(text)
           /\ amount = decimal_or_none(Decimal(clean_val(LeftmostNumericToken(text)))).val

\* a row the status lock protects: stored, with a status other than 'new'
Locked(row) == row # NoRow /\ row.status # "new"

\* the columns process_and_save_message writes
IngestedColumns(row) ==
    <<row.text, row.file_path, row.amount, row.transaction_date, row.date_extracted,
      row.description>>

\* C13: the status lock on ingestion: whatever the interleaving of the bot's
\* callers and the reviewer's status edits, the upsert of
\* process_and_save_message never overwrites text, file_path, amount,
\* transaction_date, date_extracted or description of a row whose status is
\* not 'new' when the upsert is made
C13_StatusLockOnIngestion ==
    [][\A w \in Workers :
          process_and_save_message_upsert(w)
              => \A k \in Keys :
                     Locked(messages[k])
                         => IngestedColumns(messages'[k]) = IngestedColumns(messages[k])]_vars

\* C14: the status lock on deletion: whatever the interleaving of message,
\* message_changed and message_deleted events with the reviewer's status
\* edits, the DELETE of delete_message_from_db removes a row only when its
\* status is 'new' at that moment, and a delete for a key without a row
\* leaves the table as it is
C14_StatusLockOnDeletion ==
    [][\A t \in Threads :
          delete_message_from_db_delete(t)
              => \A k \in Keys :
                     /\ Locked(messages[k]) => messages'[k] = messages[k]
                     /\ messages[k] = NoRow => messages'[k] = NoRow]_vars

\* a row backfill_data is meant for: status 'new' and a NULL amount or
\* transaction_date
Unfilled(row) ==
    /\ row # NoRow
    /\ row.status = "new"
    /\ (row.amount = NoneDecimal \/ row.transaction_date = None)

\* the columns of a row that are populated keep their values in row2
PopulatedKept(row, row2) ==
    /\ row.amount # NoneDecimal => row2.amount = row.amount
    /\ row.transaction_date # None => row2.transaction_date = row.transaction_date
    /\ row.description # None => row2.description = row.description

\* C15: backfill_data only fills missing fields: its updates change only rows
\* that have status 'new' and a NULL amount or transaction_date, they change
\* no column of such a row that was populated, and a second run right after
\* a run that no reviewer's edit fell into changes no row
C15_BackfillOnlyFillsMissing ==
    [][backfill_data_update
          => /\ \A k \in Keys :
                    /\ messages'[k] # messages[k] => Unfilled(messages[k])
                    /\ Unfilled(messages[k]) => PopulatedKept(messages[k], messages'[k])
             /\ bot.rows = backfill_fetch(messages)
                    => backfill_loop(messages', backfill_fetch(messages'),
                                     platform.utc_offset, platform.year_padded) = messages']_vars

=============================================================================
